---- MODULE Spec2Model ----
(***************************************************************************)
(* Page Rules binding of cloudflare-go (pagerules.go): the flexible        *)
(* integer decoder MaybeInt.UnmarshalJSON and the six zone operations.     *)
(* JSON scalars handed to the decoder are sequences of one-character       *)
(* strings, so quoting, unquoting, formatting and parsing are computed.    *)
(***************************************************************************)
EXTENDS Integers, Sequences, FiniteSets, TLC

\* ------------------------------------------------------------------ bounds
\* Priorities and decoded integers range over -MaxInt .. MaxInt.
MaxInt == 10

IntRange == (0 - MaxInt) .. MaxInt

\* ------------------------------------------------------- character helpers
Digits == <<"0", "1", "2", "3", "4", "5", "6", "7", "8", "9">>

DigitSet == {Digits[i] : i \in 1..10}

DigitVal(c) == (CHOOSE i \in 1..10 : Digits[i] = c) - 1

DQ == "\""

BS == "\\"

IsSpace(c) == c \in {" ", "\t", "\n", "\r"}

HexSet == DigitSet \cup {"a", "b", "c", "d", "e", "f", "A", "B", "C", "D", "E", "F"}

\* error values of encoding/json and strconv, by name
nil == "nil"

SyntaxError == "json.SyntaxError"

UnmarshalTypeError == "json.UnmarshalTypeError"

ErrSyntax == "strconv.ErrSyntax"

\* strconv.Itoa / the number literal json.Marshal writes for an integer
RECURSIVE NatDigits(_)
NatDigits(n) == IF n < 10 THEN <<Digits[n + 1]>>
                ELSE NatDigits(n \div 10) \o <<Digits[(n % 10) + 1]>>

Itoa(n) == IF n < 0 THEN <<"-">> \o NatDigits(0 - n) ELSE NatDigits(n)

\* the JSON string literal whose content is s (s has no character to escape)
Quote(s) == <<DQ>> \o s \o <<DQ>>

\* number of consecutive decimal digits of s starting at index i
RECURSIVE SpanDigits(_, _)
SpanDigits(s, i) == IF i > Len(s) \/ s[i] \notin DigitSet THEN 0
                    ELSE 1 + SpanDigits(s, i + 1)

RECURSIVE DigitsValue(_, _, _)
DigitsValue(s, i, acc) == IF i > Len(s) THEN acc
                          ELSE DigitsValue(s, i + 1, acc * 10 + DigitVal(s[i]))

\* strconv.ParseInt(s, 10, 64) on a literal already known to be -?digits+
ParseInt(s) == IF s[1] = "-" THEN 0 - DigitsValue(s, 2, 0) ELSE DigitsValue(s, 1, 0)

RECURSIVE TrimLeft(_)
TrimLeft(s) == IF Len(s) > 0 /\ IsSpace(s[1]) THEN TrimLeft(Tail(s)) ELSE s

RECURSIVE TrimRight(_)
TrimRight(s) == IF Len(s) > 0 /\ IsSpace(s[Len(s)])
                THEN TrimRight(SubSeq(s, 1, Len(s) - 1)) ELSE s

\* encoding/json skips white space around the value it scans
Trim(s) == TrimRight(TrimLeft(s))

\* JSON number grammar -?(0|[1-9][0-9]*)(\.[0-9]+)?([eE][+-]?[0-9]+)? . Each
\* scanner returns the index after the part it reads, or 0 when s is not a
\* number.
AfterIntN(s, i, n) == IF n = 0 \/ (s[i] = "0" /\ n > 1) THEN 0 ELSE i + n

AfterInt(s, i) == AfterIntN(s, i, SpanDigits(s, i))

AfterDigitsN(i, n) == IF n = 0 THEN 0 ELSE i + n

AfterDigits(s, i) == AfterDigitsN(i, SpanDigits(s, i))

AfterFrac(s, i) ==
  IF i = 0 THEN 0
  ELSE IF i <= Len(s) /\ s[i] = "." THEN AfterDigits(s, i + 1)
  ELSE i

AfterExp(s, i) ==
  IF i = 0 THEN 0
  ELSE IF i <= Len(s) /\ s[i] \in {"e", "E"}
       THEN AfterDigits(s, IF i + 1 <= Len(s) /\ s[i + 1] \in {"+", "-"} THEN i + 2 ELSE i + 1)
  ELSE i

\* i1 is the index after the integer part
ShapeAfterInt(s, i1) ==
  IF AfterExp(s, AfterFrac(s, i1)) # Len(s) + 1 THEN "bad"
  ELSE IF i1 = Len(s) + 1 THEN "int"
  ELSE "float"

\* "int" for a literal without fraction and exponent, "float" with one,
\* "bad" when s is not a number
NumberShape(s) ==
  ShapeAfterInt(s, AfterInt(s, IF Len(s) >= 1 /\ s[1] = "-" THEN 2 ELSE 1))

\* body of a JSON string literal between the quotes, scanned from index i up
\* to (not including) index last: no bare quote, no control character, only
\* the escapes of RFC 8259
RECURSIVE ValidStringBody(_, _, _)
ValidStringBody(s, i, last) ==
  IF i >= last THEN i = last
  ELSE IF s[i] = DQ \/ s[i] \in {"\t", "\n", "\r"} THEN FALSE
  ELSE IF s[i] = BS
       THEN IF i + 1 >= last THEN FALSE
            ELSE IF s[i + 1] \in {DQ, BS, "/", "b", "f", "n", "r", "t"}
                 THEN ValidStringBody(s, i + 2, last)
            ELSE IF s[i + 1] = "u"
                 THEN /\ i + 5 < last
                      /\ \A k \in 2..5 : s[i + k] \in HexSet
                      /\ ValidStringBody(s, i + 6, last)
            ELSE FALSE
  ELSE ValidStringBody(s, i + 1, last)

\* what the scanner of encoding/json finds in s, the bytes of one scalar
\* value without the white space around it
KindOf(s) ==
  IF Len(s) = 0 THEN "invalid"
  ELSE IF s[1] = DQ
       THEN IF Len(s) >= 2 /\ s[Len(s)] = DQ /\ ValidStringBody(s, 2, Len(s))
            THEN "string" ELSE "invalid"
  ELSE IF s = <<"n", "u", "l", "l">> THEN "null"
  ELSE IF s = <<"t", "r", "u", "e">> THEN "true"
  ELSE IF s = <<"f", "a", "l", "s", "e">> THEN "false"
  ELSE IF NumberShape(s) # "bad" THEN "number"
  ELSE "invalid"

JSONKind(raw) == KindOf(Trim(raw))

\* the error of decoding a value of kind k into a string
StringError(k) ==
  IF k = "invalid" THEN SyntaxError
  ELSE IF k \in {"string", "null"} THEN nil
  ELSE UnmarshalTypeError

\* json.Unmarshal(rawData, &js) with js a string: only its error is used
UnmarshalString(rawData) == StringError(JSONKind(rawData))

\* decoding s, of kind k, into an int that holds v0
StoreInt(s, k, v0) ==
  IF k = "invalid" THEN [v |-> v0, err |-> SyntaxError]
  ELSE IF k = "null" THEN [v |-> v0, err |-> nil]
  ELSE IF k = "number" /\ NumberShape(s) = "int" THEN [v |-> ParseInt(s), err |-> nil]
  ELSE [v |-> v0, err |-> UnmarshalTypeError]

\* json.Unmarshal(data, &v) with v an int holding v0: a number literal that
\* strconv.ParseInt accepts is stored, null stores nothing, anything else
\* is an error and stores nothing
UnmarshalInt(data, v0) == StoreInt(Trim(data), JSONKind(data), v0)

\* the rune a \uXXXX escape of the modelled inputs denotes
HexRune(h) == IF h = <<"0", "0", "3", "5">> THEN "5"
              ELSE IF h = <<"0", "0", "3", "7">> THEN "7"
              ELSE "?"

\* the character a simple escape \c denotes
EscapedChar(c) ==
  IF c = "n" THEN "\n" ELSE IF c = "t" THEN "\t" ELSE IF c = "r" THEN "\r"
  ELSE IF c \in {DQ, BS} THEN c ELSE "?"

Prepend(ch, r) == [ok |-> r.ok, s |-> <<ch>> \o r.s]

\* strconv.UnquoteChar over the body of a double-quoted literal, index i up
\* to (not including) last; "ok" is FALSE on a bare quote or an escape Go
\* does not know (such as \/ )
RECURSIVE UnquoteBody(_, _, _)
UnquoteBody(s, i, last) ==
  IF i >= last THEN [ok |-> (i = last), s |-> <<>>]
  ELSE IF s[i] = DQ THEN [ok |-> FALSE, s |-> <<>>]
  ELSE IF s[i] # BS THEN Prepend(s[i], UnquoteBody(s, i + 1, last))
  ELSE IF i + 1 >= last THEN [ok |-> FALSE, s |-> <<>>]
  ELSE IF s[i + 1] \in {DQ, BS, "a", "b", "f", "n", "r", "t", "v"}
       THEN Prepend(EscapedChar(s[i + 1]), UnquoteBody(s, i + 2, last))
  ELSE IF s[i + 1] = "u" /\ i + 5 < last /\ \A k \in 2..5 : s[i + k] \in HexSet
       THEN Prepend(HexRune(SubSeq(s, i + 2, i + 5)), UnquoteBody(s, i + 6, last))
  ELSE [ok |-> FALSE, s |-> <<>>]

UnquoteResult(r) == IF r.ok THEN [s |-> r.s, err |-> nil] ELSE [s |-> <<>>, err |-> ErrSyntax]

\* strconv.Unquote(s). The bytes that reach it (line 120 succeeded) begin
\* with '"', 'n' or white space, so the back-quoted and single-quoted
\* branches of Unquote are never taken.
Unquote(s) ==
  IF Len(s) < 2 THEN [s |-> <<>>, err |-> ErrSyntax]
  ELSE IF s[1] # s[Len(s)] THEN [s |-> <<>>, err |-> ErrSyntax]
  ELSE IF s[1] # DQ THEN [s |-> <<>>, err |-> ErrSyntax]
  ELSE IF \E i \in 2..(Len(s) - 1) : s[i] = "\n" THEN [s |-> <<>>, err |-> ErrSyntax]
  ELSE UnquoteResult(UnquoteBody(s, 2, Len(s)))

\* lines 127-129: parse data into v (zero, line 114), store v, return the error
ParseAndStore(r) == [f |-> r.v, err |-> r.err]

\* lines 121-124: the target is not written when Unquote fails
AfterUnquote(f, uq) ==
  IF uq.err # nil THEN [f |-> f, err |-> uq.err]
  ELSE ParseAndStore(UnmarshalInt(uq.s, 0))

\* UnmarshalJSON without lines 118-125: the quotes are never removed
UnmarshalJSON_NoUnquote(f, rawData) == ParseAndStore(UnmarshalInt(rawData, 0))

\* UnmarshalJSON storing v only when the parse succeeded
StoreIfParsed(f, r) == [f |-> IF r.err = nil THEN r.v ELSE f, err |-> r.err]

UnquotedStoreIfParsed(f, uq) ==
  IF uq.err # nil THEN [f |-> f, err |-> uq.err]
  ELSE StoreIfParsed(f, UnmarshalInt(uq.s, 0))

UnmarshalJSON_StoreIfParsed(f, rawData) ==
  IF UnmarshalString(rawData) = nil THEN UnquotedStoreIfParsed(f, Unquote(rawData))
  ELSE StoreIfParsed(f, UnmarshalInt(rawData, 0))

\* MaybeInt.UnmarshalJSON: f is the value of the target before the call
UnmarshalJSON(f, rawData) ==
  IF UnmarshalString(rawData) = nil THEN AfterUnquote(f, Unquote(rawData))
  ELSE ParseAndStore(UnmarshalInt(rawData, 0))

\* ------------------------------------------------------------ Go values
\* a Go slice: nil, or a (possibly empty) sequence of elements
NilSlice == [isnil |-> TRUE, e |-> <<>>]

Slice(s) == [isnil |-> FALSE, e |-> s]

\* time.Time values are numbered; 0 is the zero time.Time
ParseError == "time.ParseError"

TimeString(t) == IF t = 0 THEN "0001-01-01T00:00:00Z" ELSE "2014-01-01T05:20:00Z"

\* type PageRuleTarget
PageRuleTarget(target, operator, value) ==
  [Target |-> target, Constraint |-> [Operator |-> operator, Value |-> value]]

\* type PageRuleAction; Value is an interface{}: its dynamic type t and value v
PageRuleAction(id, value) == [ID |-> id, Value |-> value]

GoNil == [t |-> "nil", v |-> 0]

GoInt(n) == [t |-> "int", v |-> n]

GoFloat64(n) == [t |-> "float64", v |-> n]

GoString(s) == [t |-> "string", v |-> s]

GoBool(b) == [t |-> "bool", v |-> b]

\* type PageRule
PageRuleOf(id, targets, actions, priority, status, modifiedOn, createdOn) ==
  [ID |-> id, Targets |-> targets, Actions |-> actions, Priority |-> priority,
   Status |-> status, ModifiedOn |-> modifiedOn, CreatedOn |-> createdOn]

\* PageRule{}
ZeroPageRule == PageRuleOf("", NilSlice, NilSlice, 0, "", 0, 0)

\* type PageRuleDetailResponse
PageRuleDetailResponse(success, errs, messages, result) ==
  [Success |-> success, Errors |-> errs, Messages |-> messages, Result |-> result]

\* type PageRulesResponse; Result is a slice of PageRule
PageRulesResponse(success, errs, messages, result) ==
  [Success |-> success, Errors |-> errs, Messages |-> messages, Result |-> result]

\* ------------------------------------------------------------ JSON trees
\* A JSON document is a tree. Numbers keep their literal, a "token" keeps the
\* bytes of a scalar as the server wrote them, objects are functions from
\* the member names that are present.
JNull == [j |-> "null"]

JAbsent == [j |-> "absent"]

JMalformed == [j |-> "malformed"]

JStr(s) == [j |-> "string", s |-> s]

JNum(lit) == [j |-> "number", lit |-> lit]

JToken(lit) == [j |-> "token", lit |-> lit]

JBool(b) == [j |-> "bool", b |-> b]

JArr(s) == [j |-> "array", e |-> s]

JObj(f) == [j |-> "object", f |-> f]

Member(obj, k) == IF k \in DOMAIN obj.f THEN obj.f[k] ELSE JAbsent

\* the bytes of a scalar member, as encoding/json hands them to UnmarshalJSON
RawBytes(jv) ==
  IF jv.j \in {"number", "token"} THEN jv.lit
  ELSE IF jv.j = "null" THEN <<"n", "u", "l", "l">>
  ELSE IF jv.j = "bool"
       THEN (IF jv.b THEN <<"t", "r", "u", "e">> ELSE <<"f", "a", "l", "s", "e">>)
  ELSE <<"[", "]">>

\* ------------------------------------------------ json.Marshal of a PageRule
\* PageRuleTarget, lines 17-23
MarshalTarget(t) ==
  JObj([k \in {"target", "constraint"} |->
         IF k = "target" THEN JStr(t.Target)
         ELSE JObj([c \in {"operator", "value"} |->
                     IF c = "operator" THEN JStr(t.Constraint.Operator)
                     ELSE JStr(t.Constraint.Value)])])

\* []PageRuleTarget: a nil slice is written as null
MarshalTargets(sl) ==
  IF sl.isnil THEN JNull ELSE JArr([i \in 1..Len(sl.e) |-> MarshalTarget(sl.e[i])])

\* an interface{} is written by its dynamic type; an int and an integral
\* float64 are both written as the bare decimal literal
MarshalValue(val) ==
  IF val.t = "nil" THEN JNull
  ELSE IF val.t \in {"int", "float64"} THEN JNum(Itoa(val.v))
  ELSE IF val.t = "string" THEN JStr(val.v)
  ELSE JBool(val.v)

\* PageRuleAction, lines 51-54
MarshalAction(a) ==
  JObj([k \in {"id", "value"} |->
         IF k = "id" THEN JStr(a.ID) ELSE MarshalValue(a.Value)])

\* []PageRuleAction: a nil slice is written as null
MarshalActions(sl) ==
  IF sl.isnil THEN JNull ELSE JArr([i \in 1..Len(sl.e) |-> MarshalAction(sl.e[i])])

\* MaybeInt has no MarshalJSON: it is written as a bare number
MarshalMaybeInt(n) == JNum(Itoa(n))

\* PageRule, lines 83-91: omitempty drops an empty string; it never drops a
\* struct, so the two time.Time members are always written
MarshalPageRule(rule) ==
  LET keys == {"targets", "actions", "priority", "status", "modified_on", "created_on"}
              \cup (IF rule.ID # "" THEN {"id"} ELSE {})
  IN JObj([k \in keys |->
            CASE k = "id" -> JStr(rule.ID)
              [] k = "targets" -> MarshalTargets(rule.Targets)
              [] k = "actions" -> MarshalActions(rule.Actions)
              [] k = "priority" -> MarshalMaybeInt(rule.Priority)
              [] k = "status" -> JStr(rule.Status)
              [] k = "modified_on" -> JStr(TimeString(rule.ModifiedOn))
              [] k = "created_on" -> JStr(TimeString(rule.CreatedOn))])

\* ------------------------------------------- json.Unmarshal into Go values
\* Every decoder takes the JSON member and the value the target holds, and
\* returns the value the target holds afterwards with the error. A member
\* that is absent or null leaves a plain target alone.
FirstError(errs) ==
  IF \A i \in 1..Len(errs) : errs[i] = nil THEN nil
  ELSE errs[CHOOSE i \in 1..Len(errs) : errs[i] # nil /\ \A k \in 1..(i - 1) : errs[k] = nil]

UnmarshalStr(jv, old) ==
  IF jv.j \in {"absent", "null"} THEN [v |-> old, err |-> nil]
  ELSE IF jv.j = "string" THEN [v |-> jv.s, err |-> nil]
  ELSE [v |-> old, err |-> UnmarshalTypeError]

UnmarshalBool(jv, old) ==
  IF jv.j \in {"absent", "null"} THEN [v |-> old, err |-> nil]
  ELSE IF jv.j = "bool" THEN [v |-> jv.b, err |-> nil]
  ELSE [v |-> old, err |-> UnmarshalTypeError]

\* time.Time.UnmarshalJSON: null is ignored, an RFC 3339 string is parsed
UnmarshalTime(jv, old) ==
  IF jv.j \in {"absent", "null"} THEN [v |-> old, err |-> nil]
  ELSE IF jv.j = "string" /\ \E t \in 0..1 : TimeString(t) = jv.s
       THEN [v |-> CHOOSE t \in 0..1 : TimeString(t) = jv.s, err |-> nil]
  ELSE [v |-> old, err |-> ParseError]

\* the slice and the first error of the element results rs
SliceFrom(rs) ==
  [v |-> Slice([i \in 1..Len(rs) |-> rs[i].v]),
   err |-> FirstError([i \in 1..Len(rs) |-> rs[i].err])]

\* Errors, Messages []string: each element is decoded into a zero element
UnmarshalStrings(jv, old) ==
  IF jv.j \in {"absent", "null"} THEN [v |-> old, err |-> nil]
  ELSE IF jv.j # "array" THEN [v |-> old, err |-> UnmarshalTypeError]
  ELSE SliceFrom([i \in 1..Len(jv.e) |-> UnmarshalStr(jv.e[i], "")])

MaybeIntFrom(r) == [v |-> r.f, err |-> r.err]

\* the priority member goes to MaybeInt.UnmarshalJSON whenever it is
\* present, null included (encoding/json calls an Unmarshaler for null too)
UnmarshalMaybeInt(jv, old) ==
  IF jv.j = "absent" THEN [v |-> old, err |-> nil]
  ELSE MaybeIntFrom(UnmarshalJSON(old, RawBytes(jv)))

\* an interface{} target takes the JSON value's own type: every number
\* becomes a float64 (the numbers of the modelled documents are integral)
UnmarshalValue(jv, old) ==
  IF jv.j = "absent" THEN [v |-> old, err |-> nil]
  ELSE IF jv.j = "null" THEN [v |-> GoNil, err |-> nil]
  ELSE IF jv.j = "number" THEN [v |-> GoFloat64(ParseInt(jv.lit)), err |-> nil]
  ELSE IF jv.j = "string" THEN [v |-> GoString(jv.s), err |-> nil]
  ELSE IF jv.j = "bool" THEN [v |-> GoBool(jv.b), err |-> nil]
  ELSE [v |-> old, err |-> UnmarshalTypeError]

ZeroTarget == PageRuleTarget("", "", "")

ConstraintFrom(rs) ==
  [v |-> [Operator |-> rs[1].v, Value |-> rs[2].v], err |-> FirstError(<<rs[1].err, rs[2].err>>)]

\* the anonymous Constraint struct, lines 19-22
UnmarshalConstraint(jv, old) ==
  IF jv.j \in {"absent", "null"} THEN [v |-> old, err |-> nil]
  ELSE IF jv.j # "object" THEN [v |-> old, err |-> UnmarshalTypeError]
  ELSE ConstraintFrom(<<UnmarshalStr(Member(jv, "operator"), old.Operator),
                        UnmarshalStr(Member(jv, "value"), old.Value)>>)

TargetFrom(rs) ==
  [v |-> [Target |-> rs[1].v, Constraint |-> rs[2].v], err |-> FirstError(<<rs[1].err, rs[2].err>>)]

UnmarshalTarget(jv, old) ==
  IF jv.j \in {"absent", "null"} THEN [v |-> old, err |-> nil]
  ELSE IF jv.j # "object" THEN [v |-> old, err |-> UnmarshalTypeError]
  ELSE TargetFrom(<<UnmarshalStr(Member(jv, "target"), old.Target),
                    UnmarshalConstraint(Member(jv, "constraint"), old.Constraint)>>)

\* Targets []PageRuleTarget
UnmarshalTargets(jv, old) ==
  IF jv.j \in {"absent", "null"} THEN [v |-> old, err |-> nil]
  ELSE IF jv.j # "array" THEN [v |-> old, err |-> UnmarshalTypeError]
  ELSE SliceFrom([i \in 1..Len(jv.e) |-> UnmarshalTarget(jv.e[i], ZeroTarget)])

ZeroAction == PageRuleAction("", GoNil)

ActionFrom(rs) ==
  [v |-> PageRuleAction(rs[1].v, rs[2].v), err |-> FirstError(<<rs[1].err, rs[2].err>>)]

UnmarshalAction(jv, old) ==
  IF jv.j \in {"absent", "null"} THEN [v |-> old, err |-> nil]
  ELSE IF jv.j # "object" THEN [v |-> old, err |-> UnmarshalTypeError]
  ELSE ActionFrom(<<UnmarshalStr(Member(jv, "id"), old.ID),
                    UnmarshalValue(Member(jv, "value"), old.Value)>>)

\* Actions []PageRuleAction
UnmarshalActions(jv, old) ==
  IF jv.j \in {"absent", "null"} THEN [v |-> old, err |-> nil]
  ELSE IF jv.j # "array" THEN [v |-> old, err |-> UnmarshalTypeError]
  ELSE SliceFrom([i \in 1..Len(jv.e) |-> UnmarshalAction(jv.e[i], ZeroAction)])

PageRuleFrom(rs) ==
  [v |-> PageRuleOf(rs[1].v, rs[2].v, rs[3].v, rs[4].v, rs[5].v, rs[6].v, rs[7].v),
   err |-> FirstError([i \in 1..7 |-> rs[i].err])]

\* json.Unmarshal into a PageRule, by the tags of lines 83-91
UnmarshalPageRule(jv, old) ==
  IF jv.j \in {"absent", "null"} THEN [v |-> old, err |-> nil]
  ELSE IF jv.j # "object" THEN [v |-> old, err |-> UnmarshalTypeError]
  ELSE PageRuleFrom(<<
         UnmarshalStr(Member(jv, "id"), old.ID),
         UnmarshalTargets(Member(jv, "targets"), old.Targets),
         UnmarshalActions(Member(jv, "actions"), old.Actions),
         UnmarshalMaybeInt(Member(jv, "priority"), old.Priority),
         UnmarshalStr(Member(jv, "status"), old.Status),
         UnmarshalTime(Member(jv, "modified_on"), old.ModifiedOn),
         UnmarshalTime(Member(jv, "created_on"), old.CreatedOn)>>)

\* Result []PageRule of the list envelope
UnmarshalPageRules(jv, old) ==
  IF jv.j \in {"absent", "null"} THEN [v |-> old, err |-> nil]
  ELSE IF jv.j # "array" THEN [v |-> old, err |-> UnmarshalTypeError]
  ELSE SliceFrom([i \in 1..Len(jv.e) |-> UnmarshalPageRule(jv.e[i], ZeroPageRule)])

\* both envelopes have the members Success, Errors, Messages, Result
EnvelopeFrom(rs) ==
  [v |-> [Success |-> rs[1].v, Errors |-> rs[2].v, Messages |-> rs[3].v, Result |-> rs[4].v],
   err |-> FirstError([i \in 1..4 |-> rs[i].err])]

\* var r PageRuleDetailResponse
ZeroDetail == PageRuleDetailResponse(FALSE, NilSlice, NilSlice, ZeroPageRule)

\* var r PageRulesResponse
ZeroList == PageRulesResponse(FALSE, NilSlice, NilSlice, NilSlice)

\* json.Unmarshal(res, &r) with r a zero PageRuleDetailResponse (lines 94-99)
UnmarshalDetail(res) ==
  IF res.j = "malformed" THEN [v |-> ZeroDetail, err |-> SyntaxError]
  ELSE IF res.j = "null" THEN [v |-> ZeroDetail, err |-> nil]
  ELSE IF res.j # "object" THEN [v |-> ZeroDetail, err |-> UnmarshalTypeError]
  ELSE EnvelopeFrom(<<UnmarshalBool(Member(res, "success"), FALSE),
                      UnmarshalStrings(Member(res, "errors"), NilSlice),
                      UnmarshalStrings(Member(res, "messages"), NilSlice),
                      UnmarshalPageRule(Member(res, "result"), ZeroPageRule)>>)

\* json.Unmarshal(res, &r) with r a zero PageRulesResponse (lines 102-107)
UnmarshalList(res) ==
  IF res.j = "malformed" THEN [v |-> ZeroList, err |-> SyntaxError]
  ELSE IF res.j = "null" THEN [v |-> ZeroList, err |-> nil]
  ELSE IF res.j # "object" THEN [v |-> ZeroList, err |-> UnmarshalTypeError]
  ELSE EnvelopeFrom(<<UnmarshalBool(Member(res, "success"), FALSE),
                      UnmarshalStrings(Member(res, "errors"), NilSlice),
                      UnmarshalStrings(Member(res, "messages"), NilSlice),
                      UnmarshalPageRules(Member(res, "result"), NilSlice)>>)

\* ------------------------------------------------------ the collaborator
\* context strings of the package's error wrapping
errMakeRequestError == "request failed"

errUnmarshalError == "response decode failed"

\* errors.Wrap(err, message)
Wrap(err, message) == [msg |-> message, cause |-> err]

\* the nil error of an operation
NoError == [msg |-> "", cause |-> nil]

\* the params argument of makeRequest: nil, or a PageRule
NoParams == [present |-> FALSE, rule |-> ZeroPageRule]

Params(rule) == [present |-> TRUE, rule |-> rule]

\* a detail envelope as the server writes it
DetailEnvelope(success, errs, result) ==
  JObj([k \in {"success", "errors", "messages", "result"} |->
         CASE k = "success" -> JBool(success)
           [] k = "errors" -> JArr([i \in 1..Len(errs) |-> JStr(errs[i])])
           [] k = "messages" -> JArr(<<>>)
           [] k = "result" -> result])

\* the stub "echo" answers with the rule it was sent plus a generated id
EchoResult(body) ==
  IF body.j # "object" THEN JNull
  ELSE JObj([k \in DOMAIN body.f \cup {"id"} |->
              IF k = "id" THEN JStr("generated") ELSE body.f[k]])

\* the answer of the stub transport to a request
Transport(req, stub) ==
  [req |-> req,
   res |-> IF stub.mode = "reply" THEN stub.res
           ELSE IF stub.mode = "echo" THEN DetailEnvelope(TRUE, <<>>, EchoResult(req.body))
           ELSE JMalformed,
   err |-> IF stub.mode = "fail" THEN stub.cause ELSE nil]

\* api.makeRequest(method, uri, params) against a stub transport: the request
\* it issues (its body is json.Marshal(params), none for nil params) and the
\* bytes or the error the stub answers with
makeRequest(method, uri, params, stub) ==
  Transport([method |-> method, uri |-> uri,
             body |-> IF params.present THEN MarshalPageRule(params.rule) ELSE JAbsent],
            stub)

\* ------------------------------------------------------ the six operations
ZonesPath == <<"/", "z", "o", "n", "e", "s", "/">>

PageRulesPath == <<"/", "p", "a", "g", "e", "r", "u", "l", "e", "s">>

\* what one invocation did and returned
Outcome(fn, rr, result, err, events) ==
  [fn |-> fn, req |-> rr.req, res |-> rr.res, terr |-> rr.err,
   result |-> result, err |-> err, events |-> events]

NoResult == [none |-> TRUE]

\* Each operation is its three stages: the request (the operator named as
\* the Go method), the test of the transport error, the test of the decode
\* error. rr is what makeRequest returned, r what json.Unmarshal left.

\* CreatePageRule turning success = false into an error
CreatePageRuleDecoded_ReadsSuccess(rr, r) ==
  IF r.err # nil \/ ~r.v.Success
  THEN Outcome("CreatePageRule", rr, ZeroPageRule, Wrap(r.err, errUnmarshalError),
               <<"makeRequest", "Unmarshal">>)
  ELSE Outcome("CreatePageRule", rr, r.v.Result, NoError, <<"makeRequest", "Unmarshal">>)

\* lines 145-150
CreatePageRuleDecoded(rr, r) ==
  IF r.err # nil
  THEN Outcome("CreatePageRule", rr, ZeroPageRule, Wrap(r.err, errUnmarshalError),
               <<"makeRequest", "Unmarshal">>)
  ELSE Outcome("CreatePageRule", rr, r.v.Result, NoError, <<"makeRequest", "Unmarshal">>)

\* lines 142-146
CreatePageRuleRequested(rr) ==
  IF rr.err # nil
  THEN Outcome("CreatePageRule", rr, ZeroPageRule, Wrap(rr.err, errMakeRequestError),
               <<"makeRequest">>)
  ELSE CreatePageRuleDecoded(rr, UnmarshalDetail(rr.res))

\* lines 139-151
CreatePageRule(zoneID, rule, stub) ==
  CreatePageRuleRequested(
    makeRequest("POST", ZonesPath \o zoneID \o PageRulesPath, Params(rule), stub))

\* lines 166-171
ListPageRulesDecoded(rr, r) ==
  IF r.err # nil
  THEN Outcome("ListPageRules", rr, Slice(<<>>), Wrap(r.err, errUnmarshalError),
               <<"makeRequest", "Unmarshal">>)
  ELSE Outcome("ListPageRules", rr, r.v.Result, NoError, <<"makeRequest", "Unmarshal">>)

\* lines 163-167
ListPageRulesRequested(rr) ==
  IF rr.err # nil
  THEN Outcome("ListPageRules", rr, Slice(<<>>), Wrap(rr.err, errMakeRequestError),
               <<"makeRequest">>)
  ELSE ListPageRulesDecoded(rr, UnmarshalList(rr.res))

\* lines 160-172
ListPageRules(zoneID, stub) ==
  ListPageRulesRequested(
    makeRequest("GET", ZonesPath \o zoneID \o PageRulesPath, NoParams, stub))

\* lines 187-192
PageRuleDecoded(rr, r) ==
  IF r.err # nil
  THEN Outcome("PageRule", rr, ZeroPageRule, Wrap(r.err, errUnmarshalError),
               <<"makeRequest", "Unmarshal">>)
  ELSE Outcome("PageRule", rr, r.v.Result, NoError, <<"makeRequest", "Unmarshal">>)

\* lines 184-188
PageRuleRequested(rr) ==
  IF rr.err # nil
  THEN Outcome("PageRule", rr, ZeroPageRule, Wrap(rr.err, errMakeRequestError),
               <<"makeRequest">>)
  ELSE PageRuleDecoded(rr, UnmarshalDetail(rr.res))

\* lines 181-193
PageRule(zoneID, ruleID, stub) ==
  PageRuleRequested(
    makeRequest("GET", ZonesPath \o zoneID \o PageRulesPath \o <<"/">> \o ruleID,
                NoParams, stub))

\* lines 209-214
ChangePageRuleDecoded(rr, r) ==
  IF r.err # nil
  THEN Outcome("ChangePageRule", rr, ZeroPageRule, Wrap(r.err, errUnmarshalError),
               <<"makeRequest", "Unmarshal">>)
  ELSE Outcome("ChangePageRule", rr, r.v.Result, NoError, <<"makeRequest", "Unmarshal">>)

\* lines 206-210
ChangePageRuleRequested(rr) ==
  IF rr.err # nil
  THEN Outcome("ChangePageRule", rr, ZeroPageRule, Wrap(rr.err, errMakeRequestError),
               <<"makeRequest">>)
  ELSE ChangePageRuleDecoded(rr, UnmarshalDetail(rr.res))

\* ChangePageRule sent with the method of UpdatePageRule
ChangePageRule_Put(zoneID, ruleID, rule, stub) ==
  ChangePageRuleRequested(
    makeRequest("PUT", ZonesPath \o zoneID \o PageRulesPath \o <<"/">> \o ruleID,
                Params(rule), stub))

\* lines 203-215
ChangePageRule(zoneID, ruleID, rule, stub) ==
  ChangePageRuleRequested(
    makeRequest("PATCH", ZonesPath \o zoneID \o PageRulesPath \o <<"/">> \o ruleID,
                Params(rule), stub))

\* lines 231-236
UpdatePageRuleDecoded(rr, r) ==
  IF r.err # nil
  THEN Outcome("UpdatePageRule", rr, ZeroPageRule, Wrap(r.err, errUnmarshalError),
               <<"makeRequest", "Unmarshal">>)
  ELSE Outcome("UpdatePageRule", rr, r.v.Result, NoError, <<"makeRequest", "Unmarshal">>)

\* UpdatePageRule asking the transport a second time after a failure
UpdatePageRuleRequested_Retries(rr) ==
  IF rr.err # nil
  THEN Outcome("UpdatePageRule", rr, ZeroPageRule, Wrap(rr.err, errMakeRequestError),
               <<"makeRequest", "makeRequest">>)
  ELSE UpdatePageRuleDecoded(rr, UnmarshalDetail(rr.res))

\* lines 228-232
UpdatePageRuleRequested(rr) ==
  IF rr.err # nil
  THEN Outcome("UpdatePageRule", rr, ZeroPageRule, Wrap(rr.err, errMakeRequestError),
               <<"makeRequest">>)
  ELSE UpdatePageRuleDecoded(rr, UnmarshalDetail(rr.res))

\* lines 225-237
UpdatePageRule(zoneID, ruleID, rule, stub) ==
  UpdatePageRuleRequested(
    makeRequest("PUT", ZonesPath \o zoneID \o PageRulesPath \o <<"/">> \o ruleID,
                Params(rule), stub))

\* DeletePageRule dropping the decode error along with the envelope
DeletePageRuleDecoded_DropsError(rr, r) ==
  Outcome("DeletePageRule", rr, NoResult, NoError, <<"makeRequest", "Unmarshal">>)

\* lines 252-257: the decoded envelope is dropped, its decode error is not
DeletePageRuleDecoded(rr, r) ==
  IF r.err # nil
  THEN Outcome("DeletePageRule", rr, NoResult, Wrap(r.err, errUnmarshalError),
               <<"makeRequest", "Unmarshal">>)
  ELSE Outcome("DeletePageRule", rr, NoResult, NoError, <<"makeRequest", "Unmarshal">>)

\* DeletePageRule without the test of line 249
DeletePageRuleRequested_NoTest(rr) == DeletePageRuleDecoded(rr, UnmarshalDetail(rr.res))

\* lines 249-253
DeletePageRuleRequested(rr) ==
  IF rr.err # nil
  THEN Outcome("DeletePageRule", rr, NoResult, Wrap(rr.err, errMakeRequestError),
               <<"makeRequest">>)
  ELSE DeletePageRuleDecoded(rr, UnmarshalDetail(rr.res))

\* lines 246-258
DeletePageRule(zoneID, ruleID, stub) ==
  DeletePageRuleRequested(
    makeRequest("DELETE", ZonesPath \o zoneID \o PageRulesPath \o <<"/">> \o ruleID,
                NoParams, stub))

\* ------------------------------------------------------------ the inputs
\* scalars handed to MaybeInt.UnmarshalJSON besides the integers of IntRange
OtherRaw ==
  { <<DQ, "a", "b", "c", DQ>>,                    \* "abc"
    <<DQ, DQ>>,                                   \* ""
    <<DQ, "n", "u", "l", "l", DQ>>,               \* "null"
    <<DQ, "t", "r", "u", "e", DQ>>,               \* "true"
    <<DQ, "1", ".", "5", DQ>>,                    \* "1.5"
    <<DQ, "0", "7", DQ>>,                         \* "07"
    <<DQ, "-", DQ>>,                              \* "-"
    <<DQ, " ", "7", DQ>>,                         \* " 7"
    <<DQ, BS, "/", "7", DQ>>,                     \* "\/7"
    <<DQ, BS, "u", "0", "0", "3", "7", DQ>>,      \* "7"
    <<DQ, BS, "n", DQ>>,                          \* "\n"
    <<DQ, "1", "e", "1", DQ>>,                    \* "1e1"
    <<" ", DQ, "7", DQ>>,                         \* white space, then "7"
    <<DQ, "7", DQ, " ">>,                         \* "7", then white space
    <<"n", "u", "l", "l">>,                       \* null
    <<"t", "r", "u", "e">>,                       \* true
    <<"1", ".", "5">>,                            \* 1.5
    <<"1", "e", "1">>,                            \* 1e1
    <<"0", "7">>,                                 \* 07
    <<"a", "b", "c">>,                            \* abc
    <<DQ, "7">>,                                  \* "7
    <<" ", "7">>,                                 \* white space, then 7
    <<>> }

RawInputs == {Itoa(n) : n \in IntRange} \cup {Quote(Itoa(n)) : n \in IntRange} \cup OtherRaw

\* the content of a quoted input, and whether it is a base-10 integer
Content(raw) == SubSeq(raw, 2, Len(raw) - 1)

IsBase10Integer(s) ==
  LET i0 == IF Len(s) >= 1 /\ s[1] \in {"-", "+"} THEN 2 ELSE 1
  IN i0 <= Len(s) /\ SpanDigits(s, i0) = Len(s) - i0 + 1

ZoneIDs == { <<"z", "1">>, <<"a", "/", "b">> }

RuleIDs == { <<"r", "1">>, <<"x", "?", "y">> }

TheTarget == PageRuleTarget("url", "matches", "*example.com/images/*")

\* rules a caller builds: not yet created, already created, and bare
CallerRules ==
  UNION { { PageRuleOf("", Slice(<<TheTarget>>),
                       Slice(<<PageRuleAction("cache_level", GoString("bypass"))>>),
                       n, "active", 0, 0),
            PageRuleOf("r1", Slice(<<TheTarget>>),
                       Slice(<<PageRuleAction("always_use_https", GoNil),
                               PageRuleAction("browser_cache_ttl", GoInt(n))>>),
                       n, "paused", 1, 1),
            PageRuleOf("", NilSlice, Slice(<<>>), n, "active", 0, 0) }
          : n \in {0 - MaxInt, 0, 1, MaxInt} }

\* the priority member as a server may write it
ServerPriorities ==
  { JToken(<<"5">>), JToken(<<DQ, "5", DQ>>), JToken(<<"-", "3">>),
    JToken(<<DQ, "a", "b", "c", DQ>>), JToken(<<DQ, "n", "u", "l", "l", DQ>>),
    JToken(<<"1", ".", "5">>), JToken(<<DQ, BS, "/", "7", DQ>>), JNull, JAbsent }

ServerRule(id, priority, createdOn) ==
  LET keys == {"id", "targets", "actions", "status", "modified_on", "created_on"}
              \cup (IF priority.j = "absent" THEN {} ELSE {"priority"})
  IN JObj([k \in keys |->
            CASE k = "id" -> JStr(id)
              [] k = "targets" -> JArr(<<MarshalTarget(TheTarget)>>)
              [] k = "actions" -> JArr(<<MarshalAction(PageRuleAction("ssl", GoString("full")))>>)
              [] k = "priority" -> priority
              [] k = "status" -> JStr("active")
              [] k = "modified_on" -> JStr(TimeString(1))
              [] k = "created_on" -> createdOn])

ServerResults ==
  { ServerRule("r9", p, JStr(TimeString(1))) : p \in ServerPriorities }
  \cup { ServerRule("r9", JToken(<<"5">>), JStr("yesterday")),
         JNull, JAbsent, JStr("gone"),
         JArr(<<>>),
         JArr(<<ServerRule("r8", JToken(<<"1">>), JStr(TimeString(1)))>>),
         JArr(<<ServerRule("r8", JToken(<<"1">>), JStr(TimeString(1))),
                ServerRule("r9", JToken(<<DQ, "2", DQ>>), JStr(TimeString(1)))>>),
         JArr(<<ServerRule("r8", JToken(<<"1">>), JStr(TimeString(1))),
                ServerRule("r9", JToken(<<DQ, "a", "b", "c", DQ>>), JStr(TimeString(1)))>>) }

Responses ==
  { DetailEnvelope(fl[1], fl[2], r) :
      fl \in {<<TRUE, <<>>>>, <<FALSE, <<"boom">>>>, <<FALSE, <<>>>>}, r \in ServerResults }
  \cup { JMalformed, JNull, JArr(<<>>) }

Stubs ==
  { [mode |-> "fail", cause |-> c, res |-> JMalformed] : c \in {"timeout", "refused"} }
  \cup { [mode |-> "reply", cause |-> nil, res |-> r] : r \in Responses }
  \cup { [mode |-> "echo", cause |-> nil, res |-> JMalformed] }

\* ------------------------------------------------------- the state machine
VARIABLES pc, f, call

vars == <<pc, f, call>>

NoCall == [fn |-> "none"]

\* nothing has been called; a MaybeInt target holds its zero value
Init == pc = "idle" /\ f = 0 /\ call = NoCall

\* a caller decodes one scalar into the MaybeInt target f
DecodeMaybeInt ==
  /\ pc = "idle"
  /\ \E rawData \in RawInputs :
        \E r \in {UnmarshalJSON(f, rawData)} :
           /\ f' = r.f
           /\ call' = [fn |-> "UnmarshalJSON", rawData |-> rawData, prior |-> f, err |-> r.err]
  /\ pc' = "returned"

\* the state after an operation returned: what it did, and its arguments
Returned(outcome, zoneID, ruleID, rule, stub) ==
  /\ call' = outcome @@ [zoneID |-> zoneID, ruleID |-> ruleID, rule |-> rule, stub |-> stub]
  /\ pc' = "returned"
  /\ UNCHANGED f

DoCreatePageRule ==
  /\ pc = "idle"
  /\ \E zoneID \in ZoneIDs, rule \in CallerRules, stub \in Stubs :
        Returned(CreatePageRule(zoneID, rule, stub), zoneID, <<>>, rule, stub)

DoListPageRules ==
  /\ pc = "idle"
  /\ \E zoneID \in ZoneIDs, stub \in Stubs :
        Returned(ListPageRules(zoneID, stub), zoneID, <<>>, ZeroPageRule, stub)

DoPageRule ==
  /\ pc = "idle"
  /\ \E zoneID \in ZoneIDs, ruleID \in RuleIDs, stub \in Stubs :
        Returned(PageRule(zoneID, ruleID, stub), zoneID, ruleID, ZeroPageRule, stub)

DoChangePageRule ==
  /\ pc = "idle"
  /\ \E zoneID \in ZoneIDs, ruleID \in RuleIDs, rule \in CallerRules, stub \in Stubs :
        Returned(ChangePageRule(zoneID, ruleID, rule, stub), zoneID, ruleID, rule, stub)

DoUpdatePageRule ==
  /\ pc = "idle"
  /\ \E zoneID \in ZoneIDs, ruleID \in RuleIDs, rule \in CallerRules, stub \in Stubs :
        Returned(UpdatePageRule(zoneID, ruleID, rule, stub), zoneID, ruleID, rule, stub)

DoDeletePageRule ==
  /\ pc = "idle"
  /\ \E zoneID \in ZoneIDs, ruleID \in RuleIDs, stub \in Stubs :
        Returned(DeletePageRule(zoneID, ruleID, stub), zoneID, ruleID, ZeroPageRule, stub)

\* the caller takes the result; the MaybeInt target keeps what was stored
Return == pc = "returned" /\ pc' = "idle" /\ call' = NoCall /\ UNCHANGED f

Next ==
  \/ DecodeMaybeInt
  \/ DoCreatePageRule
  \/ DoListPageRules
  \/ DoPageRule
  \/ DoChangePageRule
  \/ DoUpdatePageRule
  \/ DoDeletePageRule
  \/ Return

Spec == Init /\ [][Next]_vars

\* ------------------------------------------------------------ properties
Operations ==
  {"CreatePageRule", "ListPageRules", "PageRule", "ChangePageRule", "UpdatePageRule",
   "DeletePageRule"}

WithRule == {"CreatePageRule", "ChangePageRule", "UpdatePageRule"}

\* an operation has returned
Called == pc = "returned" /\ call.fn \in Operations

\* MaybeInt.UnmarshalJSON has returned
Decoded == pc = "returned" /\ call.fn = "UnmarshalJSON"

\* the error json.Unmarshal gives for the bytes res in the envelope of fn
EnvelopeError(fn, res) ==
  IF fn = "ListPageRules" THEN UnmarshalList(res).err ELSE UnmarshalDetail(res).err

\* the result member of res as fn returns it
EnvelopeResult(fn, res) ==
  IF fn = "ListPageRules" THEN UnmarshalList(res).v.Result
  ELSE IF fn = "DeletePageRule" THEN NoResult
  ELSE UnmarshalDetail(res).v.Result

\* C1: for every n of IntRange (0 and negative values included) decoding the
\* bare number n and decoding the quoted string "n" both succeed and both
\* store n.
C1_BareAndQuotedStoreN ==
  \A n \in IntRange :
     (Decoded /\ call.rawData \in {Itoa(n), Quote(Itoa(n))}) => (call.err = nil /\ f = n)

C1_Witness ==
  /\ Decoded
  /\ call.rawData = <<DQ, "-", "1", "0", DQ>>
  /\ call.prior = 7
  /\ f = 0 - 10

\* C2: a quoted JSON string whose content is not a base-10 integer is
\* rejected with an error (stated for the quoted inputs without escapes,
\* whose content is the text between the quotes).
C2_NonIntegerStringFails ==
  (/\ Decoded
   /\ JSONKind(call.rawData) = "string"
   /\ \A i \in 1..Len(call.rawData) : call.rawData[i] # BS /\ ~IsSpace(call.rawData[i])
   /\ ~IsBase10Integer(Content(call.rawData)))
  => call.err # nil

\* C3: when makeRequest fails, each operation returns that cause wrapped in
\* the "request failed" context and decodes nothing.
C3_TransportFailureWrapped ==
  (Called /\ call.stub.mode = "fail")
  => /\ call.err = [msg |-> "request failed", cause |-> call.stub.cause]
     /\ \A i \in 1..Len(call.events) : call.events[i] # "Unmarshal"

C3_Witness ==
  /\ Called
  /\ call.fn = "DeletePageRule"
  /\ call.stub.mode = "fail"
  /\ call.err.cause = "timeout"
  /\ call.events = <<"makeRequest">>

\* the response carries a rule whose priority the flexible decoder rejects
PriorityRejected(res) ==
  /\ res.j = "object"
  /\ Member(res, "result").j = "object"
  /\ Member(Member(res, "result"), "priority").j # "absent"
  /\ UnmarshalJSON(0, RawBytes(Member(Member(res, "result"), "priority"))).err # nil

\* C4: the returned error is the transport kind exactly when makeRequest
\* failed, the decode kind exactly when makeRequest succeeded and the bytes
\* do not decode into the expected envelope (a rejected priority included,
\* DeletePageRule included), and nil in every other case.
C4_ErrorKindsNotConflated ==
  Called =>
    /\ (call.err.msg = errMakeRequestError) <=> (call.stub.mode = "fail")
    /\ (call.err.msg = errUnmarshalError)
         <=> (call.stub.mode # "fail" /\ EnvelopeError(call.fn, call.res) # nil)
    /\ (call.err.msg \notin {errMakeRequestError, errUnmarshalError}) => call.err = NoError
    /\ (call.stub.mode # "fail" /\ call.fn # "ListPageRules" /\ PriorityRejected(call.res))
         => call.err.msg = errUnmarshalError
    /\ errMakeRequestError # errUnmarshalError

C4_Witness ==
  /\ Called
  /\ call.fn = "DeletePageRule"
  /\ call.stub.mode = "reply"
  /\ PriorityRejected(call.res)
  /\ call.err = [msg |-> errUnmarshalError, cause |-> SyntaxError]

\* res with the success flag set and the errors list emptied
Succeeded(res) ==
  JObj([k \in DOMAIN res.f |->
         IF k = "success" THEN JBool(TRUE)
         ELSE IF k = "errors" THEN JArr(<<>>)
         ELSE res.f[k]])

\* the envelope says success = false
SaysFailure(res) == res.j = "object" /\ Member(res, "success") = JBool(FALSE)

\* C5: a structurally valid envelope with success = false gives no error and
\* the envelope's result as the typed result (nothing for Delete); the flag
\* and the errors list change neither.
C5_SuccessFalsePassedThrough ==
  (/\ Called
   /\ call.stub.mode = "reply"
   /\ SaysFailure(call.res)
   /\ EnvelopeError(call.fn, call.res) = nil)
  => /\ call.err = NoError
     /\ call.result = EnvelopeResult(call.fn, call.res)
     /\ call.result = EnvelopeResult(call.fn, Succeeded(call.res))

C5_Witness ==
  /\ Called
  /\ call.fn = "CreatePageRule"
  /\ call.stub.mode = "reply"
  /\ SaysFailure(call.res)
  /\ Member(call.res, "errors") = JArr(<<JStr("boom")>>)
  /\ call.err = NoError
  /\ call.result.ID = "r9"
  /\ call.result.Priority = 5

\* C6: method, path and body of every operation are those of the operation
\* table, the path being the plain concatenation of the identifiers.
C6_RequestTable ==
  Called =>
    /\ call.req.method =
         CASE call.fn = "CreatePageRule" -> "POST"
           [] call.fn \in {"ListPageRules", "PageRule"} -> "GET"
           [] call.fn = "ChangePageRule" -> "PATCH"
           [] call.fn = "UpdatePageRule" -> "PUT"
           [] call.fn = "DeletePageRule" -> "DELETE"
    /\ call.req.uri =
         IF call.fn \in {"CreatePageRule", "ListPageRules"}
         THEN <<"/", "z", "o", "n", "e", "s", "/">> \o call.zoneID
              \o <<"/", "p", "a", "g", "e", "r", "u", "l", "e", "s">>
         ELSE <<"/", "z", "o", "n", "e", "s", "/">> \o call.zoneID
              \o <<"/", "p", "a", "g", "e", "r", "u", "l", "e", "s", "/">> \o call.ruleID
    /\ call.req.body =
         IF call.fn \in WithRule THEN MarshalPageRule(call.rule) ELSE JAbsent

C6_Witness ==
  /\ Called
  /\ call.fn = "ChangePageRule"
  /\ call.req.method = "PATCH"
  /\ call.req.uri = <<"/", "z", "o", "n", "e", "s", "/", "a", "/", "b",
                      "/", "p", "a", "g", "e", "r", "u", "l", "e", "s", "/", "x", "?", "y">>
  /\ call.req.body.j = "object"
  /\ call.req.body.f["priority"] = JNum(<<"-", "1", "0">>)

\* C7: the body CreatePageRule sends never carries the identifier or the
\* two timestamps, whatever Rule the caller passes.
C7_CreateBodyOmitsServerFields ==
  (Called /\ call.fn = "CreatePageRule")
  => DOMAIN call.req.body.f \cap {"id", "modified_on", "created_on"} = {}

\* C8: a rule sent as a request body and answered in a detail envelope around
\* the same serialized rule comes back with its targets, actions (id and
\* value), priority and status.
C8_RoundTrip ==
  (Called /\ call.fn \in WithRule /\ call.stub.mode = "echo")
  => /\ call.err = NoError
     /\ call.result.Targets = call.rule.Targets
     /\ call.result.Actions = call.rule.Actions
     /\ call.result.Priority = call.rule.Priority
     /\ call.result.Status = call.rule.Status

\* C9 as stated: whenever UnmarshalJSON fails the target is 0 on return,
\* whatever it held before.
C9_FailureLeavesZero == (Decoded /\ call.err # nil) => f = 0

\* C9 as amended: a failure of the integer parse leaves 0 in the target; a
\* failure of the unquoting leaves the target as it was before the call.
C9_FailureZeroOrUntouched ==
  (Decoded /\ call.err # nil)
  => IF UnmarshalString(call.rawData) = nil /\ Unquote(call.rawData).err # nil
     THEN f = call.prior /\ call.err = ErrSyntax
     ELSE f = 0

C9_Witness ==
  /\ Decoded
  /\ call.rawData = <<"1", ".", "5">>
  /\ call.err = UnmarshalTypeError
  /\ call.prior = 7
  /\ f = 0

\* the number of requests among the events of an invocation
RECURSIVE Requests(_)
Requests(events) ==
  IF events = <<>> THEN 0
  ELSE (IF Head(events) = "makeRequest" THEN 1 ELSE 0) + Requests(Tail(events))

\* C10: every invocation ends after exactly one call of the transport, made
\* before any decoding and not repeated after either failure.
C10_OneRoundTrip ==
  /\ Called =>
       /\ Requests(call.events) = 1
       /\ call.events[1] = "makeRequest"
       /\ Len(call.events) <= 2
  /\ (pc = "returned") = (call # NoCall)

C10_Witness ==
  /\ Called
  /\ call.fn = "UpdatePageRule"
  /\ call.stub.mode = "reply"
  /\ call.err.msg = errUnmarshalError
  /\ call.events = <<"makeRequest", "Unmarshal">>

====
